---- MODULE Spec2Model ----
(***************************************************************************)
(* Model of lambda_handler.py: the Lambda entry point handler(), its lazy  *)
(* one-shot initialization guarded by the module-level flag                *)
(* _services_initialized, the event classifier _is_function_url_event and  *)
(* the dispatch to one of the two Mangum adapters.                         *)
(*                                                                         *)
(* The process first imports the module, statement by statement (lines    *)
(* 22-37). Every invocation of handler() is then a thread of control that  *)
(* walks through the lines of handler(); Spec lets the invocations of      *)
(* NumThreads threads interleave at every read and write of the shared     *)
(* flag, SpecSeq runs one invocation at a time (the warm process reused    *)
(* sequentially), and SpecSeqLive and SpecLive are SpecSeq and Spec with    *)
(* progress and a setup that fails in fewer invocations than arrive.       *)
(***************************************************************************)
EXTENDS Integers, Sequences, FiniteSets, TLC

\* ---------------------------------------------------------------- bounds
\* Number of threads of control that may run handler() in the process.
NumThreads == 2
\* Total number of handler() invocations in one process lifetime.
MaxInvocations == 3

Threads == 1..NumThreads

\* ------------------------------------------------------- Python values
\* Python values are tagged records, so that a dict, a str and None can be
\* told apart the way the interpreter tells them apart.
PyNone == [tag |-> "None"]
PyStr(s) == [tag |-> "str", val |-> s]
\* A dict is a function from its keys to Python values (<<>> is {}).
PyDict(d) == [tag |-> "dict", val |-> d]

\* bool(v) for the values above: None, "" and {} are falsy.
Truthy(v) ==
    CASE v.tag = "None" -> FALSE
      [] v.tag = "str"  -> v.val # ""
      [] v.tag = "dict" -> DOMAIN v.val # {}

\* Only a dict has a .get attribute: None.get and "x".get raise AttributeError.
HasGet(v) == v.tag = "dict"

\* d.get(key, default) for a dict d.
DictGet(d, key, default) ==
    IF key \in DOMAIN d.val THEN d.val[key] ELSE default

\* ------------------------------------------------------------ constants
API_GATEWAY_BASE_PATH == "/prod"
FUNCTION_URL_STAGE == "$default"

\* ------------------------------------------------------------- adapters
\* The two Mangum instances built at import time, named by their binding,
\* with the api_gateway_base_path each was constructed with (Mangum's
\* default is "/", which strips nothing).
Adapters == {"_api_gateway_handler", "_function_url_handler"}
\* The keyword arguments each Mangum instance was constructed with.
AdapterConfig(a) ==
    IF a = "_api_gateway_handler"
    THEN [lifespan |-> "off", api_gateway_base_path |-> API_GATEWAY_BASE_PATH]
    ELSE [lifespan |-> "off"]

\* --------------------------------------------------------------- inputs
\* Event payloads handler() is called with: every shape of requestContext
\* and of requestContext.stage the classifier can tell apart.
RequestContexts ==
    { PyDict(<<>>),
      PyDict([stage |-> PyStr("")]),
      PyDict([stage |-> PyStr("$default")]),
      PyDict([stage |-> PyStr("prod")]),
      PyDict([stage |-> PyStr("staging")]),
      PyDict([stage |-> PyNone]),
      PyNone,
      PyStr("ctx") }
Events ==
    { PyDict(<<>>) } \cup { PyDict([requestContext |-> rc]) : rc \in RequestContexts }
\* Lambda context objects (opaque to handler()).
Contexts == {"ctxA", "ctxB"}
\* What an adapter may return, and what it or the setup may raise.
Responses == {"resp200", "resp404"}
AdapterErrors == {"AdapterError"}
InitErrors == {"InitializationError"}

\* The inputs of the concurrent specification: one event for each outcome of
\* the classifier (True, False, AttributeError) and one context; the
\* sequential specification draws from all of Events and Contexts.
RaceEvents ==
    { PyDict([requestContext |-> PyDict([stage |-> PyStr("$default")])]),
      PyDict([requestContext |-> PyDict([stage |-> PyStr("prod")])]),
      PyDict([requestContext |-> PyNone]) }
RaceContexts == {"ctxA"}

\* No value (an unbound local).
Unset == [tag |-> "unset"]
NoResult == [kind |-> "none", val |-> "none"]
Returned(v) == [kind |-> "return", val |-> v]
Raised(e) == [kind |-> "raise", val |-> e]

\* ---------------------------------------------------------- classifier
\* _is_function_url_event(event), lines 53-55.
\* request_context = event.get("requestContext", {})
request_context_of(event) == DictGet(event, "requestContext", PyDict(<<>>))
\* request_context.get(...) raises AttributeError unless it is a dict.
ClassifierRaises(event) == ~HasGet(request_context_of(event))
\* stage = request_context.get("stage", "")
stage_of(event) == DictGet(request_context_of(event), "stage", PyStr(""))
\* Mutant of _is_function_url_event: the `not stage` test is left out.
IsFunctionUrlEventStageOnly(event) ==
    stage_of(event) = PyStr(FUNCTION_URL_STAGE)

\* return not stage or stage == FUNCTION_URL_STAGE
_is_function_url_event(event) ==
    \/ ~Truthy(stage_of(event))
    \/ stage_of(event) = PyStr(FUNCTION_URL_STAGE)

\* ---------------------------------------------------------------- state
VARIABLES
    boot,          \* the module-level statement the import stands at
    dirs,          \* the directories created so far (lines 22-23)
    appImported,   \* whether app.main has been imported (line 26)
    bindings,      \* the object each adapter name is bound to (lines 30-34)
    nBuilt,        \* nBuilt[a]: how many times adapter a was constructed
    _services_initialized,  \* the module-level flag (line 37)
    pc,            \* pc[t]: where thread t stands in handler()
    event,         \* event[t]: the event handler() was called with
    context,       \* context[t]: the context handler() was called with
    setup,         \* setup[t]: this invocation's initialize_services() call
    classified,    \* classified[t]: what _is_function_url_event gave
    adapterCalls,  \* adapterCalls[t]: adapter calls made by this invocation
    result,        \* result[t]: what this invocation returned or raised
    nInv,          \* number of handler() invocations started
    initCalls,     \* number of calls of initialize_services()
    initOKs,       \* number of those calls that returned
    initFails,     \* number of those calls that raised
    adapterTotal,  \* number of adapter calls made in the process
    lastOutcome    \* how the most recently finished invocation ended

vars == << boot, dirs, appImported, bindings, nBuilt,
           _services_initialized, pc, event, context, setup, classified,
           adapterCalls, result, nInv, initCalls, initOKs, initFails,
           adapterTotal, lastOutcome >>

locals == << event, context, setup, classified, adapterCalls, result >>
counters == << nInv, initCalls, initOKs, initFails, adapterTotal >>
\* What the import of the module sets up, and what handler() works with.
bootvars == << boot, dirs, appImported, bindings, nBuilt >>
handlervars == << locals, counters, pc, lastOutcome >>

\* The process starts: the import of the module stands at its first
\* statement with an effect (line 22), nothing has been created, no adapter
\* name is bound and no invocation has arrived. The flag is bound at line
\* 37 and read by nothing before that.
Init ==
    /\ boot = "line22"
    /\ dirs = {}
    /\ appImported = FALSE
    /\ bindings = [a \in Adapters |-> Unset]
    /\ nBuilt = [a \in Adapters |-> 0]
    /\ _services_initialized = FALSE
    /\ pc = [t \in Threads |-> "idle"]
    /\ event = [t \in Threads |-> Unset]
    /\ context = [t \in Threads |-> "none"]
    /\ setup = [t \in Threads |-> "none"]
    /\ classified = [t \in Threads |-> "none"]
    /\ adapterCalls = [t \in Threads |-> << >>]
    /\ result = [t \in Threads |-> NoResult]
    /\ nInv = 0
    /\ initCalls = 0
    /\ initOKs = 0
    /\ initFails = 0
    /\ adapterTotal = 0
    /\ lastOutcome = "none"

\* ------------------------------------------------- import of the module
\* Line 22: os.makedirs("/tmp/uploads", exist_ok=True).
MakeUploadsDir ==
    /\ boot = "line22"
    /\ dirs' = dirs \cup {"/tmp/uploads"}
    /\ boot' = "line23"
    /\ UNCHANGED << appImported, bindings, nBuilt, _services_initialized,
                    handlervars >>

\* Mutant of MakeCacheDir: the directory is not created.
MakeCacheDirSkipped ==
    /\ boot = "line23"
    /\ boot' = "line26"
    /\ UNCHANGED << dirs, appImported, bindings, nBuilt,
                    _services_initialized, handlervars >>

\* Line 23: os.makedirs("/tmp/cached_chunks", exist_ok=True).
MakeCacheDir ==
    /\ boot = "line23"
    /\ dirs' = dirs \cup {"/tmp/cached_chunks"}
    /\ boot' = "line26"
    /\ UNCHANGED << appImported, bindings, nBuilt, _services_initialized,
                    handlervars >>

\* Line 26: from app.main import app, initialize_services.
ImportApp ==
    /\ boot = "line26"
    /\ appImported' = TRUE
    /\ boot' = "line30"
    /\ UNCHANGED << dirs, bindings, nBuilt, _services_initialized,
                    handlervars >>

\* Lines 30-32: _api_gateway_handler = Mangum(app, lifespan="off",
\* api_gateway_base_path=API_GATEWAY_BASE_PATH).
BuildApiGatewayHandler ==
    /\ boot = "line30"
    /\ bindings' = [bindings EXCEPT !["_api_gateway_handler"] =
                        AdapterConfig("_api_gateway_handler")]
    /\ nBuilt' = [nBuilt EXCEPT !["_api_gateway_handler"] = @ + 1]
    /\ boot' = "line34"
    /\ UNCHANGED << dirs, appImported, _services_initialized, handlervars >>

\* Line 34: _function_url_handler = Mangum(app, lifespan="off").
BuildFunctionUrlHandler ==
    /\ boot = "line34"
    /\ bindings' = [bindings EXCEPT !["_function_url_handler"] =
                        AdapterConfig("_function_url_handler")]
    /\ nBuilt' = [nBuilt EXCEPT !["_function_url_handler"] = @ + 1]
    /\ boot' = "line37"
    /\ UNCHANGED << dirs, appImported, _services_initialized, handlervars >>

\* Line 37: _services_initialized = False; the module is loaded and the
\* runtime may call handler().
InitFlag ==
    /\ boot = "line37"
    /\ _services_initialized' = FALSE
    /\ boot' = "loaded"
    /\ UNCHANGED << dirs, appImported, bindings, nBuilt, handlervars >>

\* The import of the module, statement by statement.
Import ==
    \/ MakeUploadsDir
    \/ MakeCacheDir
    \/ ImportApp
    \/ BuildApiGatewayHandler
    \/ BuildFunctionUrlHandler
    \/ InitFlag

\* -------------------------------------------------------------- actions
\* The runtime calls handler(event, context) on thread t (line 58), which
\* it can do once the module has been imported.
Invoke(t, e, c) ==
    /\ boot = "loaded"
    /\ pc[t] = "idle"
    /\ UNCHANGED bootvars
    /\ nInv < MaxInvocations
    /\ nInv' = nInv + 1
    /\ pc' = [pc EXCEPT ![t] = "line76"]
    /\ event' = [event EXCEPT ![t] = e]
    /\ context' = [context EXCEPT ![t] = c]
    /\ UNCHANGED << _services_initialized, setup, classified, adapterCalls,
                    result, initCalls, initOKs, initFails, adapterTotal,
                    lastOutcome >>

\* Mutant of CheckInitialized: the guard of line 76 is dropped, so every
\* invocation goes on to call initialize_services() whatever the flag says.
CheckInitializedUnguarded(t) ==
    /\ pc[t] = "line76"
    /\ UNCHANGED bootvars
    /\ pc' = [pc EXCEPT ![t] = "line77"]
    /\ UNCHANGED << _services_initialized, locals, counters, lastOutcome >>

\* Mutant of CheckInitialized: the `not` of line 76 is left out, so an
\* invocation that finds the flag False skips the setup.
CheckInitializedInverted(t) ==
    /\ pc[t] = "line76"
    /\ UNCHANGED bootvars
    /\ pc' = [pc EXCEPT ![t] = IF _services_initialized
                                THEN "line77" ELSE "line83"]
    /\ UNCHANGED << _services_initialized, locals, counters, lastOutcome >>

\* Line 76, `if not _services_initialized:` reads the flag; when it is False
\* control enters the branch (line 77), else it skips to line 83.
CheckInitialized(t) ==
    /\ pc[t] = "line76"
    /\ UNCHANGED bootvars
    /\ pc' = [pc EXCEPT ![t] = IF ~_services_initialized
                                THEN "line77" ELSE "line83"]
    /\ UNCHANGED << _services_initialized, locals, counters, lastOutcome >>

\* Mutant of CallInitializeServices: the flag is set before
\* initialize_services() is called (lines 78 and 79 swapped).
CallInitializeServicesMarksFirst(t) ==
    /\ pc[t] = "line77"
    /\ UNCHANGED bootvars
    /\ pc' = [pc EXCEPT ![t] = "in_init"]
    /\ setup' = [setup EXCEPT ![t] = "running"]
    /\ initCalls' = initCalls + 1
    /\ _services_initialized' = TRUE
    /\ UNCHANGED << event, context, classified, adapterCalls, result, nInv,
                    initOKs, initFails, adapterTotal, lastOutcome >>

\* Lines 77-78: logger.info(...) has returned and initialize_services() is
\* called. The flag is not read again: the call is made on the strength of
\* the read of line 76, however long the thread stood in line 77 (the
\* logging package takes and releases its locks there) and whatever other
\* invocations did to the flag meanwhile.
CallInitializeServices(t) ==
    /\ pc[t] = "line77"
    /\ UNCHANGED bootvars
    /\ pc' = [pc EXCEPT ![t] = "in_init"]
    /\ setup' = [setup EXCEPT ![t] = "running"]
    /\ initCalls' = initCalls + 1
    /\ UNCHANGED << _services_initialized, event, context, classified,
                    adapterCalls, result, nInv, initOKs, initFails,
                    adapterTotal, lastOutcome >>

\* Line 78: initialize_services() returns; control reaches line 79.
InitReturn(t) ==
    /\ pc[t] = "in_init"
    /\ UNCHANGED bootvars
    /\ pc' = [pc EXCEPT ![t] = "line79"]
    /\ setup' = [setup EXCEPT ![t] = "ok"]
    /\ initOKs' = initOKs + 1
    /\ UNCHANGED << _services_initialized, event, context, classified,
                    adapterCalls, result, nInv, initCalls, initFails,
                    adapterTotal, lastOutcome >>

\* Mutant of InitRaise: the flag is set before the setup is known to have
\* succeeded (lines 78 and 79 swapped), so a failed setup leaves it True.
InitRaiseFlagSet(t, err) ==
    /\ pc[t] = "in_init"
    /\ UNCHANGED bootvars
    /\ pc' = [pc EXCEPT ![t] = "done"]
    /\ setup' = [setup EXCEPT ![t] = "failed"]
    /\ initFails' = initFails + 1
    /\ result' = [result EXCEPT ![t] = Raised(err)]
    /\ _services_initialized' = TRUE
    /\ UNCHANGED << event, context, classified, adapterCalls, nInv,
                    initCalls, initOKs, adapterTotal, lastOutcome >>

\* Mutant of InitRaise: the exception of initialize_services() is caught
\* and logged, and handler() goes on to line 83.
InitRaiseSwallowed(t, err) ==
    /\ pc[t] = "in_init"
    /\ UNCHANGED bootvars
    /\ pc' = [pc EXCEPT ![t] = "line83"]
    /\ setup' = [setup EXCEPT ![t] = "failed"]
    /\ initFails' = initFails + 1
    /\ UNCHANGED << _services_initialized, event, context, classified,
                    adapterCalls, result, nInv, initCalls, initOKs,
                    adapterTotal, lastOutcome >>

\* Line 78: initialize_services() raises; handler() has no try/except, so
\* the exception leaves handler() and line 79 is not executed.
InitRaise(t, err) ==
    /\ pc[t] = "in_init"
    /\ UNCHANGED bootvars
    /\ pc' = [pc EXCEPT ![t] = "done"]
    /\ setup' = [setup EXCEPT ![t] = "failed"]
    /\ initFails' = initFails + 1
    /\ result' = [result EXCEPT ![t] = Raised(err)]
    /\ UNCHANGED << _services_initialized, event, context, classified,
                    adapterCalls, nInv, initCalls, initOKs, adapterTotal,
                    lastOutcome >>

\* Line 79: _services_initialized = True.
MarkInitialized(t) ==
    /\ pc[t] = "line79"
    /\ UNCHANGED bootvars
    /\ _services_initialized' = TRUE
    /\ pc' = [pc EXCEPT ![t] = "line83"]
    /\ UNCHANGED << locals, counters, lastOutcome >>

\* Mutant of SelectAdapter: the two branches of line 83 are swapped.
SelectAdapterSwapped(isFunctionUrl) ==
    IF isFunctionUrl THEN "_api_gateway_handler" ELSE "_function_url_handler"

\* The adapter handler() selects (line 83): _function_url_handler when the
\* classifier returned True (line 84), _api_gateway_handler else (line 86).
SelectAdapter(isFunctionUrl) ==
    IF isFunctionUrl THEN "_function_url_handler" ELSE "_api_gateway_handler"

\* The arguments handler() passes to the selected adapter (lines 84, 86).
AdapterArguments(t) == << event[t], context[t] >>

\* Mutant of Dispatch: an error of the classifier resets the flag, so that
\* the next invocation sets the services up again.
DispatchResetOnError(t) ==
    /\ pc[t] = "line83"
    /\ UNCHANGED bootvars
    /\ IF ClassifierRaises(event[t])
       THEN /\ pc' = [pc EXCEPT ![t] = "done"]
            /\ classified' = [classified EXCEPT ![t] = "AttributeError"]
            /\ result' = [result EXCEPT ![t] = Raised("AttributeError")]
            /\ _services_initialized' = FALSE
            /\ UNCHANGED << adapterCalls, adapterTotal >>
       ELSE /\ pc' = [pc EXCEPT ![t] = "in_adapter"]
            /\ classified' = [classified EXCEPT ![t] =
                   IF _is_function_url_event(event[t]) THEN "True" ELSE "False"]
            /\ adapterCalls' = [adapterCalls EXCEPT ![t] =
                   Append(@, [adapter |-> SelectAdapter(_is_function_url_event(event[t])),
                              args |-> AdapterArguments(t),
                              out |-> NoResult])]
            /\ adapterTotal' = adapterTotal + 1
            /\ UNCHANGED << result, _services_initialized >>
    /\ UNCHANGED << event, context, setup, nInv, initCalls, initOKs,
                    initFails, lastOutcome >>

\* Mutant of Dispatch: the adapter is chosen by the context, not by the
\* event's stage.
DispatchByContext(t) ==
    /\ pc[t] = "line83"
    /\ UNCHANGED bootvars
    /\ IF ClassifierRaises(event[t])
       THEN /\ pc' = [pc EXCEPT ![t] = "done"]
            /\ classified' = [classified EXCEPT ![t] = "AttributeError"]
            /\ result' = [result EXCEPT ![t] = Raised("AttributeError")]
            /\ UNCHANGED << adapterCalls, adapterTotal >>
       ELSE /\ pc' = [pc EXCEPT ![t] = "in_adapter"]
            /\ classified' = [classified EXCEPT ![t] =
                   IF _is_function_url_event(event[t]) THEN "True" ELSE "False"]
            /\ adapterCalls' = [adapterCalls EXCEPT ![t] =
                   Append(@, [adapter |-> SelectAdapter(context[t] = "ctxA"),
                              args |-> AdapterArguments(t),
                              out |-> NoResult])]
            /\ adapterTotal' = adapterTotal + 1
            /\ UNCHANGED result
    /\ UNCHANGED << _services_initialized, event, context, setup, nInv,
                    initCalls, initOKs, initFails, lastOutcome >>

\* Lines 83-86 up to the adapter call: classify the event and call the
\* selected adapter with (event, context). An AttributeError raised by the
\* classifier leaves handler().
Dispatch(t) ==
    /\ pc[t] = "line83"
    /\ UNCHANGED bootvars
    /\ IF ClassifierRaises(event[t])
       THEN /\ pc' = [pc EXCEPT ![t] = "done"]
            /\ classified' = [classified EXCEPT ![t] = "AttributeError"]
            /\ result' = [result EXCEPT ![t] = Raised("AttributeError")]
            /\ UNCHANGED << adapterCalls, adapterTotal >>
       ELSE /\ pc' = [pc EXCEPT ![t] = "in_adapter"]
            /\ classified' = [classified EXCEPT ![t] =
                   IF _is_function_url_event(event[t]) THEN "True" ELSE "False"]
            /\ adapterCalls' = [adapterCalls EXCEPT ![t] =
                   Append(@, [adapter |-> SelectAdapter(_is_function_url_event(event[t])),
                              args |-> AdapterArguments(t),
                              out |-> NoResult])]
            /\ adapterTotal' = adapterTotal + 1
            /\ UNCHANGED result
    /\ UNCHANGED << _services_initialized, event, context, setup, nInv,
                    initCalls, initOKs, initFails, lastOutcome >>

\* Mutant of ReturnValue: handler() rewrites a 404 response of the adapter.
ReturnValueRewritten(v) == IF v = "resp404" THEN "resp200" ELSE v

\* What handler() returns when the selected adapter returned v:
\* `return _function_url_handler(event, context)` and line 86 alike.
ReturnValue(v) == v

\* Mutant of AdapterReturn: the `return` of line 84 is left out, so that
\* after _function_url_handler has returned control falls through to line
\* 86 and calls _api_gateway_handler too.
AdapterReturnFallsThrough(t, v) ==
    /\ pc[t] = "in_adapter"
    /\ UNCHANGED bootvars
    /\ IF adapterCalls[t][Len(adapterCalls[t])].adapter = "_function_url_handler"
       THEN /\ adapterCalls' = [adapterCalls EXCEPT ![t] =
                   Append([@ EXCEPT ![Len(@)].out = Returned(v)],
                          [adapter |-> "_api_gateway_handler",
                           args |-> AdapterArguments(t),
                           out |-> NoResult])]
            /\ adapterTotal' = adapterTotal + 1
            /\ UNCHANGED << pc, result >>
       ELSE /\ pc' = [pc EXCEPT ![t] = "done"]
            /\ adapterCalls' = [adapterCalls EXCEPT
                                   ![t][Len(adapterCalls[t])].out = Returned(v)]
            /\ result' = [result EXCEPT ![t] = Returned(ReturnValue(v))]
            /\ UNCHANGED adapterTotal
    /\ UNCHANGED << _services_initialized, event, context, setup,
                    classified, nInv, initCalls, initOKs, initFails,
                    lastOutcome >>

\* Lines 84/86: the adapter returns v and handler() returns it.
AdapterReturn(t, v) ==
    /\ pc[t] = "in_adapter"
    /\ UNCHANGED bootvars
    /\ pc' = [pc EXCEPT ![t] = "done"]
    /\ adapterCalls' = [adapterCalls EXCEPT
                           ![t][Len(adapterCalls[t])].out = Returned(v)]
    /\ result' = [result EXCEPT ![t] = Returned(ReturnValue(v))]
    /\ UNCHANGED << _services_initialized, event, context, setup,
                    classified, counters, lastOutcome >>

\* Mutant of AdapterRaise: a failed dispatch resets the flag.
AdapterRaiseResets(t, err) ==
    /\ pc[t] = "in_adapter"
    /\ UNCHANGED bootvars
    /\ pc' = [pc EXCEPT ![t] = "done"]
    /\ adapterCalls' = [adapterCalls EXCEPT
                           ![t][Len(adapterCalls[t])].out = Raised(err)]
    /\ result' = [result EXCEPT ![t] = Raised(err)]
    /\ _services_initialized' = FALSE
    /\ UNCHANGED << event, context, setup, classified, counters,
                    lastOutcome >>

\* Lines 84/86: the adapter raises; the exception leaves handler().
AdapterRaise(t, err) ==
    /\ pc[t] = "in_adapter"
    /\ UNCHANGED bootvars
    /\ pc' = [pc EXCEPT ![t] = "done"]
    /\ adapterCalls' = [adapterCalls EXCEPT
                           ![t][Len(adapterCalls[t])].out = Raised(err)]
    /\ result' = [result EXCEPT ![t] = Raised(err)]
    /\ UNCHANGED << _services_initialized, event, context, setup,
                    classified, counters, lastOutcome >>

\* How an invocation that stands at "done" ended.
Outcome(t) ==
    CASE result[t].kind = "return" -> "returned"
      [] setup[t] = "failed" -> "setup_raised"
      [] classified[t] = "AttributeError" -> "classify_raised"
      [] OTHER -> "adapter_raised"

\* handler()'s frame is gone: the runtime has taken the response or the
\* error, and thread t is free for the next invocation.
Finish(t) ==
    /\ pc[t] = "done"
    /\ UNCHANGED bootvars
    /\ pc' = [pc EXCEPT ![t] = "idle"]
    /\ lastOutcome' = Outcome(t)
    /\ event' = [event EXCEPT ![t] = Unset]
    /\ context' = [context EXCEPT ![t] = "none"]
    /\ setup' = [setup EXCEPT ![t] = "none"]
    /\ classified' = [classified EXCEPT ![t] = "none"]
    /\ adapterCalls' = [adapterCalls EXCEPT ![t] = << >>]
    /\ result' = [result EXCEPT ![t] = NoResult]
    /\ UNCHANGED << _services_initialized, counters >>

\* The state of the entry point's state machine, read off the flag and the
\* threads standing between the check of line 76 and the write of line 79.
EntryPointState ==
    IF _services_initialized THEN "Ready"
    ELSE IF \E t \in Threads : pc[t] \in {"in_init", "line79"}
         THEN "Initializing"
         ELSE "Uninitialized"

\* ------------------------------------------------------- specifications
\* Concurrent invocations: any thread may take its next step.
Next ==
    \/ Import
    \/ \E t \in Threads :
        \/ \E e \in RaceEvents, c \in RaceContexts : Invoke(t, e, c)
        \/ CheckInitialized(t)
        \/ CallInitializeServices(t)
        \/ InitReturn(t)
        \/ \E err \in InitErrors : InitRaise(t, err)
        \/ MarkInitialized(t)
        \/ Dispatch(t)
        \/ \E v \in Responses : AdapterReturn(t, v)
        \/ \E err \in AdapterErrors : AdapterRaise(t, err)
        \/ Finish(t)

Spec == Init /\ [][Next]_vars

\* Sequential invocations: handler() is called only when no other
\* invocation is in progress.
InvokeSeq(t, e, c) ==
    /\ \A u \in Threads : pc[u] = "idle"
    /\ Invoke(t, e, c)

NextSeq ==
    \/ Import
    \/ \E t \in Threads :
        \/ \E e \in Events, c \in Contexts : InvokeSeq(t, e, c)
        \/ CheckInitialized(t)
        \/ CallInitializeServices(t)
        \/ InitReturn(t)
        \/ \E err \in InitErrors : InitRaise(t, err)
        \/ MarkInitialized(t)
        \/ Dispatch(t)
        \/ \E v \in Responses : AdapterReturn(t, v)
        \/ \E err \in AdapterErrors : AdapterRaise(t, err)
        \/ Finish(t)

SpecSeq == Init /\ [][NextSeq]_vars

\* Sequential invocations in which the setup fails in fewer invocations
\* than arrive: initialize_services() may raise only while fewer than
\* MaxInitFailures calls of it have raised.
MaxInitFailures == MaxInvocations - 1

InitRaiseBounded(t, err) ==
    /\ initFails < MaxInitFailures
    /\ InitRaise(t, err)

NextSeqLive ==
    \/ Import
    \/ \E t \in Threads :
        \/ \E e \in Events, c \in Contexts : InvokeSeq(t, e, c)
        \/ CheckInitialized(t)
        \/ CallInitializeServices(t)
        \/ InitReturn(t)
        \/ \E err \in InitErrors : InitRaiseBounded(t, err)
        \/ MarkInitialized(t)
        \/ Dispatch(t)
        \/ \E v \in Responses : AdapterReturn(t, v)
        \/ \E err \in AdapterErrors : AdapterRaise(t, err)
        \/ Finish(t)

\* The import runs to its end, the runtime keeps delivering invocations
\* while it has any, and every call made by handler() comes back: some step
\* is taken whenever one can be.
SpecSeqLive == Init /\ [][NextSeqLive]_vars /\ WF_vars(NextSeqLive)

\* The same progress and the same bound on setup failures for invocations
\* that interleave.
NextLive ==
    \/ Import
    \/ \E t \in Threads :
        \/ \E e \in RaceEvents, c \in RaceContexts : Invoke(t, e, c)
        \/ CheckInitialized(t)
        \/ CallInitializeServices(t)
        \/ InitReturn(t)
        \/ \E err \in InitErrors : InitRaiseBounded(t, err)
        \/ MarkInitialized(t)
        \/ Dispatch(t)
        \/ \E v \in Responses : AdapterReturn(t, v)
        \/ \E err \in AdapterErrors : AdapterRaise(t, err)
        \/ Finish(t)

SpecLive == Init /\ [][NextLive]_vars /\ WF_vars(NextLive)

\* --------------------------------------------------------------- claims
\* C1: in sequential invocations in which initialize_services() has not
\* failed, initialize_services() is called exactly once: no call before the
\* first invocation reaches line 78, one call from then on, and that call is
\* made inside the first invocation while no adapter has been invoked yet.
C1_InitExactlyOnceInFirstCall ==
    initFails = 0 =>
        /\ initCalls <= 1
        /\ initCalls = 0 =>
               \/ nInv = 0
               \/ nInv = 1 /\ \E t \in Threads : pc[t] \in {"line76", "line77"}
        /\ \A t \in Threads :
               pc[t] = "in_init" => nInv = 1 /\ adapterTotal = 0
        /\ adapterTotal > 0 => initCalls = 1

\* Three invocations have run to their dispatch with a single setup call.
C1_Witness ==
    /\ nInv = 3
    /\ initFails = 0
    /\ initCalls = 1
    /\ adapterTotal = 3
    /\ \E t \in Threads : pc[t] = "done" /\ result[t].kind = "return"

\* C2: when initialize_services() raises in an invocation, that invocation
\* ends with the setup's error raised out of handler() and the flag still
\* False, the flag is False until the next invocation reads it, and the next
\* invocation calls initialize_services() again.
C2_InitFailureRetried ==
    /\ \A t \in Threads :
           (pc[t] = "done" /\ setup[t] = "failed") =>
               /\ ~_services_initialized
               /\ result[t].kind = "raise"
               /\ result[t].val \in InitErrors
    /\ lastOutcome = "setup_raised" =>
           /\ (\A t \in Threads : pc[t] \in {"idle", "line76", "line77"})
                  => ~_services_initialized
           /\ \A t \in Threads :
                  pc[t] \notin {"idle", "line76", "line77"}
                      => setup[t] # "none"

\* The invocation after a failed setup is inside initialize_services().
C2_Witness ==
    /\ lastOutcome = "setup_raised"
    /\ nInv = 2
    /\ \E t \in Threads : pc[t] = "in_init"

\* C3: an invocation whose setup failed raises and invokes no adapter; when
\* the setup fails in the first call and succeeds in the second, the setup
\* has been called exactly twice, every adapter call made so far was made by
\* the second call, and the second call returns the adapter's response.
C3_NoDispatchAfterFailedSetup ==
    /\ \A t \in Threads :
           setup[t] = "failed" =>
               /\ adapterCalls[t] = << >>
               /\ pc[t] = "done"
               /\ result[t].kind = "raise"
    /\ (nInv = 1 /\ initFails = 1) => adapterTotal = 0
    /\ (nInv = 2 /\ initFails = 1 /\ initOKs = 1) =>
           /\ initCalls = 2
           /\ adapterTotal <= 1
           /\ \A t \in Threads :
                  pc[t] # "idle" =>
                      /\ setup[t] = "ok"
                      /\ adapterTotal = Len(adapterCalls[t])
                      /\ (pc[t] = "done" /\ adapterCalls[t] # << >>
                            /\ adapterCalls[t][1].out.kind = "return")
                         => result[t] = adapterCalls[t][1].out

\* First call failed in the setup, second call has returned a response.
C3_Witness ==
    /\ nInv = 2
    /\ initFails = 1
    /\ initOKs = 1
    /\ adapterTotal = 1
    /\ \E t \in Threads : pc[t] = "done" /\ result[t].kind = "return"

\* C4: no two invocations are inside initialize_services() at the same
\* time (the check, the setup and the assignment are one critical section).
C4_SetupIsCriticalSection ==
    \A t, u \in Threads :
        t # u => ~(pc[t] = "in_init" /\ pc[u] = "in_init")

\* The shape of requestContext.stage in an event, described from the event
\* alone: absent (no requestContext, or a requestContext mapping without a
\* stage), or a string.
HasRequestContext(e) == "requestContext" \in DOMAIN e.val
RequestContextIsMapping(e) ==
    HasRequestContext(e) /\ e.val.requestContext.tag = "dict"
StageAbsent(e) ==
    \/ ~HasRequestContext(e)
    \/ RequestContextIsMapping(e)
         /\ "stage" \notin DOMAIN e.val.requestContext.val
StageIsString(e) ==
    /\ RequestContextIsMapping(e)
    /\ "stage" \in DOMAIN e.val.requestContext.val
    /\ e.val.requestContext.val.stage.tag = "str"
StageText(e) == e.val.requestContext.val.stage.val

\* An invocation that has got past initialization and classification.
Classifying(t) == pc[t] \in {"in_adapter", "done"} /\ setup[t] # "failed"

\* C5: an event whose stage is absent or a string is classified as
\* Function-URL origin exactly when the stage is absent, "" or "$default",
\* and as API-Gateway origin for every other stage string.
C5_ClassificationRule ==
    \A t \in Threads :
        (Classifying(t) /\ (StageAbsent(event[t]) \/ StageIsString(event[t])))
        => /\ classified[t] \in {"True", "False"}
           /\ classified[t] = "True" <=>
                  \/ StageAbsent(event[t])
                  \/ StageIsString(event[t])
                       /\ StageText(event[t]) \in {"", "$default"}

\* An event with stage "staging" has been classified as API-Gateway origin.
C5_Witness ==
    \E t \in Threads :
        /\ Classifying(t)
        /\ StageIsString(event[t])
        /\ StageText(event[t]) = "staging"
        /\ classified[t] = "False"

\* C6: the classifier never raises, and an event whose requestContext is
\* missing or is not a mapping is classified as Function-URL origin.
C6_ClassificationTotal ==
    \A t \in Threads :
        /\ classified[t] # "AttributeError"
        /\ (Classifying(t) /\ ~RequestContextIsMapping(event[t]))
               => classified[t] = "True"

\* C7: an event classified as API-Gateway origin is forwarded to the
\* adapter built with base path "/prod" and to no other, an event classified
\* as Function-URL origin to the adapter built without a base path and to no
\* other.
C7_DispatchSelection ==
    \A t \in Threads :
        /\ pc[t] = "in_adapter" => classified[t] \in {"True", "False"}
        /\ classified[t] = "False" =>
               /\ Len(adapterCalls[t]) = 1
               /\ adapterCalls[t][1].adapter = "_api_gateway_handler"
               /\ AdapterConfig(adapterCalls[t][1].adapter).api_gateway_base_path
                    = "/prod"
        /\ classified[t] = "True" =>
               /\ Len(adapterCalls[t]) = 1
               /\ adapterCalls[t][1].adapter = "_function_url_handler"
               /\ "api_gateway_base_path"
                    \notin DOMAIN AdapterConfig(adapterCalls[t][1].adapter)

\* An API-Gateway event has been answered through its adapter.
C7_Witness ==
    \E t \in Threads :
        /\ pc[t] = "done"
        /\ classified[t] = "False"
        /\ result[t].kind = "return"
        /\ adapterCalls[t][1].adapter = "_api_gateway_handler"

\* C8: the adapter receives the (event, context) pair handler() was called
\* with, handler() returns the value the adapter returned, and the event and
\* the context of an invocation do not change while it runs.
C8_PassThrough ==
    /\ [](\A t \in Threads :
            /\ \A i \in DOMAIN adapterCalls[t] :
                   adapterCalls[t][i].args = << event[t], context[t] >>
            /\ (pc[t] = "done" /\ adapterCalls[t] # << >>
                  /\ adapterCalls[t][1].out.kind = "return")
               => result[t] = adapterCalls[t][1].out)
    /\ [][\A t \in Threads :
            (pc[t] # "idle" /\ pc'[t] # "idle")
            => (event'[t] = event[t] /\ context'[t] = context[t])]_vars

\* An invocation called with context ctxB has returned the adapter's 404.
C8_Witness ==
    \E t \in Threads :
        /\ pc[t] = "done"
        /\ context[t] = "ctxB"
        /\ adapterCalls[t] # << >>
        /\ adapterCalls[t][1].out = Returned("resp404")
        /\ result[t] = Returned("resp404")

\* C9: when the adapter raises, handler() raises that same error after a
\* single adapter call, the flag stays True, and the next invocation does
\* not call initialize_services().
C9_DispatchErrorPropagates ==
    /\ \A t \in Threads :
           (pc[t] = "done" /\ adapterCalls[t] # << >>
              /\ adapterCalls[t][1].out.kind = "raise")
           => /\ result[t] = adapterCalls[t][1].out
              /\ result[t].val \in AdapterErrors
              /\ Len(adapterCalls[t]) = 1
              /\ _services_initialized
    /\ lastOutcome = "adapter_raised" =>
           /\ _services_initialized
           /\ \A t \in Threads : setup[t] = "none"

\* The invocation after a failed dispatch is in its adapter, and the setup
\* has been called once in all.
C9_Witness ==
    /\ lastOutcome = "adapter_raised"
    /\ initCalls = 1
    /\ \E t \in Threads : pc[t] = "in_adapter"

\* C10: the flag never goes from True to False, and the entry point's state
\* changes only from Uninitialized to Initializing, from Initializing to
\* Ready and from Initializing to Uninitialized.
C10_ReadyIsTerminal ==
    [][/\ _services_initialized => _services_initialized'
       /\ \/ EntryPointState' = EntryPointState
          \/ << EntryPointState, EntryPointState' >> \in
                 { << "Uninitialized", "Initializing" >>,
                   << "Initializing", "Ready" >>,
                   << "Initializing", "Uninitialized" >> }]_vars

\* Ready has outlived a failed dispatch and a failed classification.
C10_Witness ==
    /\ _services_initialized
    /\ lastOutcome \in {"adapter_raised", "classify_raised"}
    /\ \E t \in Threads : pc[t] = "done" /\ result[t].kind = "raise"

\* C11: under concurrent invocations initialize_services() returns
\* successfully at most once in the process (an invocation that reads the
\* flag as False while another one is inside initialize_services() starts no
\* setup run of its own, so no second run can complete).
C11_SetupSucceedsAtMostOnce == initOKs <= 1

\* C12: no adapter has been invoked unless a call of initialize_services()
\* has returned, and an invocation that stands at the classification or
\* beyond it has seen a completed setup: its own, or the flag set by one.
C12_NoDispatchBeforeSetup ==
    /\ adapterTotal > 0 => initOKs >= 1
    /\ \A t \in Threads :
           (pc[t] \in {"line83", "in_adapter"} \/ classified[t] # "none")
           => /\ initOKs >= 1
              /\ setup[t] \in {"ok", "none"}
              /\ setup[t] = "none" => _services_initialized

\* Two invocations are in their adapters at once, one after its own setup
\* and one that found the flag set.
C12_Witness ==
    \E t, u \in Threads :
        /\ pc[t] = "in_adapter" /\ setup[t] = "ok"
        /\ pc[u] = "in_adapter" /\ setup[u] = "none"

\* C13: the flag is True only when a call of initialize_services() has
\* returned, and the thread about to write it is one whose own setup call
\* returned.
C13_FlagImpliesSetupReturned ==
    /\ _services_initialized => initOKs >= 1
    /\ \A t \in Threads : pc[t] = "line79" => setup[t] = "ok"

\* The flag is True after one setup run failed and while another one, begun
\* before the flag was written, is still in progress.
C13_Witness ==
    /\ _services_initialized
    /\ initFails >= 1
    /\ \E t \in Threads : pc[t] = "in_init"

\* C15: an invocation calls at most one adapter, at most once; it has
\* called exactly one while it is in the adapter and when it has returned
\* normally.
C15_ExactlyOneAdapterCall ==
    \A t \in Threads :
        /\ Len(adapterCalls[t]) <= 1
        /\ pc[t] = "in_adapter" => Len(adapterCalls[t]) = 1
        /\ result[t].kind = "return" =>
               /\ Len(adapterCalls[t]) = 1
               /\ adapterCalls[t][1].adapter \in Adapters
               /\ adapterCalls[t][1].out.kind = "return"

\* Two concurrent invocations have returned, one through each adapter.
C15_Witness ==
    \E t, u \in Threads :
        /\ pc[t] = "done" /\ result[t].kind = "return"
        /\ adapterCalls[t][1].adapter = "_function_url_handler"
        /\ pc[u] = "done" /\ result[u].kind = "return"
        /\ adapterCalls[u][1].adapter = "_api_gateway_handler"

\* The adapter an event's requestContext.stage calls for, as a table of the
\* stage alone: the Function URL adapter for no stage, None, "" and
\* "$default", the API Gateway adapter for any other string.
AdapterForStage(e) ==
    IF \/ StageAbsent(e)
       \/ e.val.requestContext.val.stage.tag = "None"
       \/ StageText(e) \in {"", "$default"}
    THEN "_function_url_handler"
    ELSE "_api_gateway_handler"

\* C16: a step of handler() taken in the Ready state leaves the flag True
\* and no step of handler() changes an adapter binding; the adapter an
\* invocation calls is the one its event's stage calls for, whatever the
\* context, whether the invocation did the setup itself and however the
\* invocations before it ended.
C16_DispatchIsReadOnly ==
    /\ [](\A t \in Threads :
            adapterCalls[t] # << >> =>
                adapterCalls[t][1].adapter = AdapterForStage(event[t]))
    /\ [][boot = "loaded" =>
            /\ bindings' = bindings
            /\ _services_initialized => _services_initialized']_vars

\* An invocation made in the Ready state, after a failed dispatch, with
\* context ctxB and stage "prod", is in the API Gateway adapter.
C16_Witness ==
    \E t \in Threads :
        /\ pc[t] = "in_adapter"
        /\ setup[t] = "none"
        /\ _services_initialized
        /\ lastOutcome = "adapter_raised"
        /\ context[t] = "ctxB"
        /\ StageIsString(event[t]) /\ StageText(event[t]) = "prod"
        /\ adapterCalls[t][1].adapter = "_api_gateway_handler"
        /\ bindings["_api_gateway_handler"] = AdapterConfig("_api_gateway_handler")

\* C17: both scratch directories exist when the application is imported
\* and when an adapter is constructed, the application is imported when an
\* adapter is constructed, each adapter is constructed once, and the import
\* of the module is complete, with both adapters bound, before handler() is
\* invoked; initialize_services() is called only by an invocation of
\* handler().
C17_StartupOrder ==
    /\ appImported => dirs = {"/tmp/uploads", "/tmp/cached_chunks"}
    /\ \A a \in Adapters :
           /\ nBuilt[a] <= 1
           /\ nBuilt[a] = 1 =>
                  /\ appImported
                  /\ dirs = {"/tmp/uploads", "/tmp/cached_chunks"}
                  /\ bindings[a] = AdapterConfig(a)
    /\ (nInv > 0 \/ initCalls > 0) =>
           /\ boot = "loaded"
           /\ \A a \in Adapters : nBuilt[a] = 1
    /\ initCalls <= nInv
    /\ Cardinality({t \in Threads : setup[t] = "running"})
         = initCalls - initOKs - initFails

\* A setup run is in progress after the import built both adapters.
C17_Witness ==
    /\ boot = "loaded"
    /\ \A a \in Adapters : nBuilt[a] = 1
    /\ \E t \in Threads : pc[t] = "in_init"

\* C14: when invocations keep arriving and the setup fails in fewer of them
\* than arrive, the flag eventually is True for good; once it is True no
\* call of initialize_services() is made, an invocation goes from line 76
\* straight to line 83, and it gets to its classification. Under
\* invocations that interleave the second part is violated: an invocation
\* that read the flag False at line 76 and stood in line 77 while another
\* one set the flag calls initialize_services() with the flag True.
C14_EventuallyReady ==
    /\ <>[]_services_initialized
    /\ [][_services_initialized =>
            /\ initCalls' = initCalls
            /\ \A t \in Threads :
                   (pc[t] = "line76" /\ pc'[t] # "line76")
                   => pc'[t] = "line83"]_vars
    /\ \A t \in Threads :
           (_services_initialized /\ pc[t] = "line76")
           ~> (classified[t] # "none")

====
